---- MODULE Spec2Model ----
(***************************************************************************)
(* Model of streamlit_app.py: the cached loader load_data (metadata, price *)
(* history, latest column of the three annual statements, period labels),  *)
(* the renderer's format_commas, and the script body that strips the       *)
(* ticker, calls the cached loader and renders.                            *)
(*                                                                         *)
(* Python values are tagged records: None is [k |-> "none"], a string is   *)
(* [k |-> "str", s |-> ...], a number is [k |-> "num", t |-> tenths] (the  *)
(* number is t/10, so halves and other fractions that round are present),  *)
(* NaN is [k |-> "nan"], a pandas Timestamp is [k |-> "ts", y, m, d].      *)
(* A DataFrame is [index, columns, data] with data[j][i] the cell of       *)
(* column j and row i.  A ticker is a sequence of one-character strings.   *)
(***************************************************************************)
EXTENDS Integers, Sequences, FiniteSets, TLC

VARIABLES
    now,        \* wall clock in seconds, read by the cache
    cache,      \* st.cache_data store of load_data: key -> [value, computed_at, tkr]
    run,        \* what the last run of the script did
    fin,        \* load_data checked alone: the provider's responses
    fout,       \* load_data checked alone: its outcome
    cin,        \* format_commas checked alone: its argument
    cout        \* format_commas checked alone: its result

vars == <<now, cache, run, fin, fout, cin, cout>>

TTL == 3600
MaxTime == 7200
MaxRows == 2

(***************************** Python values ******************************)

NoneV == [k |-> "none"]
NaN == [k |-> "nan"]
Str(s) == [k |-> "str", s |-> s]
Num(t) == [k |-> "num", t |-> t]
Ts(y, m, d) == [k |-> "ts", y |-> y, m |-> m, d |-> d]

IsNone(v) == v.k = "none"

\* Python truthiness of the values a metadata field can hold
Truthy(v) == CASE v.k = "none" -> FALSE
               [] v.k = "str" -> v.s # ""
               [] OTHER -> TRUE

\* a or b
PyOr(a, b) == IF Truthy(a) THEN a ELSE b

Digit(n) == CASE n = 0 -> "0" [] n = 1 -> "1" [] n = 2 -> "2" [] n = 3 -> "3"
              [] n = 4 -> "4" [] n = 5 -> "5" [] n = 6 -> "6" [] n = 7 -> "7"
              [] n = 8 -> "8" [] n = 9 -> "9"

RECURSIVE Dec(_)
\* decimal digits of a natural number
Dec(n) == IF n < 10 THEN Digit(n) ELSE Dec(n \div 10) \o Digit(n % 10)

Pad2(n) == Digit((n \div 10) % 10) \o Digit(n % 10)
Pad3(n) == Digit((n \div 100) % 10) \o Pad2(n)
Pad4(n) == Digit((n \div 1000) % 10) \o Pad3(n)

(******************************* DataFrames *******************************)

DF(index, columns, data) ==
    [k |-> "df", index |-> index, columns |-> columns, data |-> data]

\* df.empty: any axis of length 0
DfEmpty(df) == Len(df.index) = 0 \/ Len(df.columns) = 0

NoneOrEmpty(df) == IsNone(df) \/ DfEmpty(df)

\* positions of the columns labelled lab, in table order
ColPositions(df, lab) ==
    LET RECURSIVE pos(_)
        pos(j) == IF j > Len(df.columns) THEN <<>>
                  ELSE (IF df.columns[j] = lab THEN <<j>> ELSE <<>>) \o pos(j + 1)
    IN pos(1)

\* df[[lab]]
SelectCol(df, lab) ==
    LET ps == ColPositions(df, lab)
    IN DF(df.index, [n \in 1..Len(ps) |-> df.columns[ps[n]]],
          [n \in 1..Len(ps) |-> df.data[ps[n]]])

\* df.reset_index(): the index becomes the first column
ResetIndex(df) ==
    DF([i \in 1..Len(df.index) |-> i - 1], <<Str("index")>> \o df.columns,
       <<df.index>> \o df.data)

\* df.columns = names (the caller gives as many names as there are columns)
Rename(df, names) == [df EXCEPT !.columns = names]

(************************ load_data and its helpers ************************)

\* str(col) for the kinds of column identifier a table can carry
PyStr(v) == CASE v.k = "none" -> "None"
              [] v.k = "nan" -> "nan"
              [] v.k = "str" -> v.s
              [] v.k = "ts" -> Pad4(v.y) \o "-" \o Pad2(v.m) \o "-" \o Pad2(v.d)
                               \o " 00:00:00"

\* calendar dates the parser is tried on
KnownDates == {<<2023, 12, 31>>, <<2022, 12, 31>>, <<2023, 6, 30>>, <<2023, 1, 1>>}

Iso(y, m, d) == Pad4(y) \o "-" \o Pad2(m) \o "-" \o Pad2(d)
UsDate(y, m, d) == Pad2(m) \o "/" \o Pad2(d) \o "/" \o Pad4(y)

\* pd.to_datetime(s) followed by the check strftime makes: the date when s is an
\* ISO date, an ISO date and midnight, a US date or a bare year; a failure (an
\* exception of the parser, or NaT, on which strftime raises) for anything else
ToDatetime(s) ==
    LET hits == {dt \in KnownDates :
                    \/ s = Iso(dt[1], dt[2], dt[3])
                    \/ s = Iso(dt[1], dt[2], dt[3]) \o " 00:00:00"
                    \/ s = UsDate(dt[1], dt[2], dt[3])
                    \/ (s = Pad4(dt[1]) /\ dt[2] = 1 /\ dt[3] = 1)}
    IN IF hits = {} THEN [ok |-> FALSE]
       ELSE LET dt == CHOOSE x \in hits : TRUE
            IN [ok |-> TRUE, y |-> dt[1], m |-> dt[2], d |-> dt[3]]

\* ts.strftime("%Y-%m-%d")
StrftimeDayFirst(dt) == Iso(dt.y, dt.d, dt.m)
Strftime(dt) == Iso(dt.y, dt.m, dt.d)

pretty_period_NoSentinel(col) ==
    LET dt == ToDatetime(PyStr(col))
    IN IF dt.ok THEN Strftime(dt) ELSE PyStr(col)

pretty_period(col) ==
    IF IsNone(col) THEN "N/A"
    ELSE LET dt == ToDatetime(PyStr(col))
         IN IF dt.ok THEN Strftime(dt) ELSE PyStr(col)

latest_col_Last(df) ==
    IF NoneOrEmpty(df) THEN <<NoneV, NoneV>>
    ELSE LET col == df.columns[Len(df.columns)]
             out == Rename(ResetIndex(SelectCol(df, col)), <<Str("Item"), Str("Value")>>)
         IN <<out, col>>

\* returns <<out, col>>
latest_col(df) ==
    IF NoneOrEmpty(df) THEN <<NoneV, NoneV>>
    ELSE LET col == df.columns[1]
             out == Rename(ResetIndex(SelectCol(df, col)), <<Str("Item"), Str("Value")>>)
         IN <<out, col>>

Ok(v) == [r |-> "ok", v |-> v]
Throw == [r |-> "throw"]

Dict(long, short) == [k |-> "dict", longName |-> long, shortName |-> short]

\* the try block of the metadata lookup
MetaName(resp) ==
    IF resp.r = "throw" THEN NoneV
    ELSE LET info == PyOr(resp.v, Dict(NoneV, NoneV))
         IN PyOr(info.longName, info.shortName)

\* the price-history step on a returned table
CloseOnly(h) == IF ~DfEmpty(h) THEN SelectCol(h, Str("Close")) ELSE h

Raise(requested) == [status |-> "raise", value |-> NoneV, requested |-> requested]

\* load_data(tkr) when the provider answers the five requests with P
load_data(tkr, P) ==
    IF P.hist.r = "throw" THEN Raise(<<"info", "history">>)
    ELSE IF ~DfEmpty(P.hist.v) /\ ColPositions(P.hist.v, Str("Close")) = <<>>
    THEN Raise(<<"info", "history">>)
    ELSE IF P.inc.r = "throw" THEN Raise(<<"info", "history", "income_stmt">>)
    ELSE IF P.bal.r = "throw"
    THEN Raise(<<"info", "history", "income_stmt", "balance_sheet">>)
    ELSE IF P.cf.r = "throw"
    THEN Raise(<<"info", "history", "income_stmt", "balance_sheet", "cashflow">>)
    ELSE LET inc == latest_col(P.inc.v)
             bal == latest_col(P.bal.v)
             cf == latest_col(P.cf.v)
         IN [status |-> "return",
             value |-> [name |-> MetaName(P.info),
                        hist |-> CloseOnly(P.hist.v),
                        inc |-> inc[1], inc_period |-> pretty_period(inc[2]),
                        bal |-> bal[1], bal_period |-> pretty_period(bal[2]),
                        cf |-> cf[1], cf_period |-> pretty_period(cf[2])],
             requested |-> <<"info", "history", "income_stmt", "balance_sheet",
                             "cashflow">>]

(****************************** format_commas ******************************)

\* numbers (in tenths) whose texts float() is tried on
FloatCandidates == {0, 30, 125, 10000, 12345670}

\* float(s) of a string: the number when s is a decimal literal (an optional
\* sign, digits, an optional fraction digit), nan for "nan"/"NaN", a
\* ValueError for anything else
ParseFloat(s) ==
    LET hits == {t \in FloatCandidates :
                    \/ (t % 10 = 0 /\ s = Dec(t \div 10))
                    \/ (t % 10 = 0 /\ s = "-" \o Dec(t \div 10))
                    \/ s = Dec(t \div 10) \o "." \o Digit(t % 10)
                    \/ s = "-" \o Dec(t \div 10) \o "." \o Digit(t % 10)}
    IN IF s \in {"nan", "NaN"} THEN [ok |-> TRUE, nan |-> TRUE, t |-> 0, neg |-> FALSE]
       ELSE IF hits = {} THEN [ok |-> FALSE]
       ELSE LET t == CHOOSE x \in hits : TRUE
                neg == s = "-" \o Dec(t \div 10)
                       \/ s = "-" \o Dec(t \div 10) \o "." \o Digit(t % 10)
            IN [ok |-> TRUE, nan |-> FALSE, t |-> t, neg |-> neg]

\* float(x): <<ok, nan, magnitude in tenths, sign bit>>
ToFloat(x) ==
    CASE x.k = "num" -> [ok |-> TRUE, nan |-> FALSE,
                         t |-> IF x.t < 0 THEN -x.t ELSE x.t, neg |-> x.t < 0]
      [] x.k = "str" -> ParseFloat(x.s)
      [] OTHER -> [ok |-> FALSE]

\* round-half-even of t/10, t >= 0
RoundHalfEven(t) ==
    LET q == t \div 10
        r == t % 10
    IN IF r < 5 THEN q
       ELSE IF r > 5 THEN q + 1
       ELSE IF q % 2 = 0 THEN q ELSE q + 1

RECURSIVE GroupedNoPad(_)
GroupedNoPad(n) ==
    IF n < 1000 THEN Dec(n) ELSE GroupedNoPad(n \div 1000) \o "," \o Dec(n % 1000)

RECURSIVE Grouped(_)
\* the digits of n in groups of three separated by commas
Grouped(n) == IF n < 1000 THEN Dec(n) ELSE Grouped(n \div 1000) \o "," \o Pad3(n % 1000)

\* f"{f:,.0f}"
FormatSpecComma0(f) ==
    IF f.nan THEN "nan"
    ELSE (IF f.neg THEN "-" ELSE "") \o Grouped(RoundHalfEven(f.t))

\* pd.isna(x) on a scalar
IsNa(x) == x.k \in {"none", "nan"}

fmt(x) ==
    IF IsNa(x) THEN Str("")
    ELSE LET f == ToFloat(x)
         IN IF f.ok THEN Str(FormatSpecComma0(f)) ELSE x

format_commas(df) ==
    IF NoneOrEmpty(df) THEN df
    ELSE [df EXCEPT !.data =
             [j \in 1..Len(df.columns) |->
                 IF df.columns[j] = Str("Value")
                 THEN [i \in 1..Len(df.data[j]) |-> fmt(df.data[j][i])]
                 ELSE df.data[j]]]

(**************************** the cached loader ****************************)

Whitespace == {" ", "\t"}

RECURSIVE LStrip(_)
LStrip(w) == IF w # <<>> /\ Head(w) \in Whitespace THEN LStrip(Tail(w)) ELSE w

RECURSIVE RStrip(_)
RStrip(w) == IF w # <<>> /\ w[Len(w)] \in Whitespace
             THEN RStrip(SubSeq(w, 1, Len(w) - 1)) ELSE w

\* str.strip()
Strip(w) == RStrip(LStrip(w))

UpperChar(c) == CASE c = "a" -> "A" [] c = "b" -> "B" [] OTHER -> c

\* the key st.cache_data derives from the argument: the string itself
CacheKeyUpper(tkr) == [i \in 1..Len(tkr) |-> UpperChar(tkr[i])]
CacheKey(tkr) == tkr

\* ttl=3600: an entry is served while it is younger than the TTL
FreshEarly(c, key, t) == key \in DOMAIN c /\ t - c[key].computed_at < TTL - 1
FreshInclusive(c, key, t) == key \in DOMAIN c /\ t - c[key].computed_at <= TTL
Fresh(c, key, t) == key \in DOMAIN c /\ t - c[key].computed_at < TTL

\* the store after a hit: untouched
HitStore(c, key, t) == c

\* the store after the function body returned value for tkr at time t
MissStore(c, key, tkr, value, t) ==
    [x \in DOMAIN c \cup {key} |->
        IF x = key THEN [value |-> value, computed_at |-> t, tkr |-> tkr] ELSE c[x]]

\* what the page shows of one statement: "Not available." or the formatted table
StatementView(df) == IF NoneOrEmpty(df) THEN NoneV ELSE format_commas(df)

Views(data) == <<StatementView(data.inc), StatementView(data.bal), StatementView(data.cf)>>

Idle == [kind |-> "idle"]

\* one run of the script with the text box holding raw, the provider answering P
Render(raw, P) ==
    LET ticker == Strip(raw)
        key == CacheKey(ticker)
    IN /\ UNCHANGED <<now, fin, fout, cin, cout>>
       /\ IF ticker = <<>>
          THEN /\ run' = [kind |-> "prompt"]
               /\ UNCHANGED cache
          ELSE IF Fresh(cache, key, now)
          THEN /\ cache' = HitStore(cache, key, now)
               /\ run' = [kind |-> "hit", ticker |-> ticker, at |-> now,
                          pipeline |-> FALSE,
                          data |-> cache[key].value,
                          computed_at |-> cache[key].computed_at,
                          computed_for |-> cache[key].tkr,
                          views |-> Views(cache[key].value)]
          ELSE LET out == load_data(ticker, P)
               IN IF out.status = "raise"
                  THEN /\ run' = [kind |-> "error", ticker |-> ticker, at |-> now,
                                  pipeline |-> TRUE]
                       /\ UNCHANGED cache
                  ELSE /\ cache' = MissStore(cache, key, ticker, out.value, now)
                       /\ run' = [kind |-> "miss", ticker |-> ticker, at |-> now,
                                  pipeline |-> TRUE,
                                  data |-> out.value,
                                  computed_at |-> now,
                                  computed_for |-> ticker,
                                  views |-> Views(out.value)]

\* time passes
Tick(d) ==
    /\ now + d <= MaxTime
    /\ now' = now + d
    /\ UNCHANGED <<cache, run, fin, fout, cin, cout>>

(*************************** provider responses ****************************)

Revenue == Str("Revenue")
Cost == Str("Cost")
Currency == Str("Currency")

\* two periods, most recent first
TwoPeriods ==
    DF(<<Revenue, Cost>>, <<Ts(2023, 12, 31), Ts(2022, 12, 31)>>,
       << <<Num(12345670), Num(-5005)>>, <<Num(9995), NaN>> >>)

\* one period labelled with a text that is no date
TextPeriod ==
    DF(<<Revenue, Currency, Cost>>, <<Str("FY2023")>>,
       << <<Num(25), Str("USD"), NoneV>> >>)

\* one period labelled with a bare year
YearPeriod == DF(<<Revenue>>, <<Str("2023"), Str("2022")>>, << <<Num(30)>>, <<Num(15)>> >>)

\* one period whose label is the text N/A
NaTextPeriod == DF(<<Revenue>>, <<Str("N/A")>>, << <<Num(10000)>> >>)

\* one period whose label is None
NoneLabelPeriod == DF(<<Revenue>>, <<NoneV>>, << <<Num(10000)>> >>)

NoRows == DF(<<>>, <<Ts(2023, 12, 31)>>, << <<>> >>)
NoColumns == DF(<<Revenue>>, <<>>, <<>>)

StatementTables ==
    {TwoPeriods, TextPeriod, YearPeriod, NaTextPeriod, NoneLabelPeriod, NoRows, NoColumns}

StatementResponses == {Throw, Ok(NoneV)} \cup {Ok(t) : t \in StatementTables}

NameValues == {NoneV, Str(""), Str("London Stock Exchange Group plc"), Str("LSEG")}

InfoResponses ==
    {Throw, Ok(NoneV)} \cup {Ok(Dict(l, sh)) : l \in NameValues, sh \in NameValues}

Prices ==
    DF(<<Ts(2023, 1, 1), Ts(2023, 6, 30)>>, <<Str("Open"), Str("Close"), Str("Volume")>>,
       << <<Num(95), Num(100)>>, <<Num(100), Num(110)>>, <<Num(5000), Num(7000)>> >>)

NoPrices == DF(<<>>, <<Str("Open"), Str("Close"), Str("Volume")>>, << <<>>, <<>>, <<>> >>)

HistoryResponses == {Throw, Ok(Prices), Ok(NoPrices), Ok(DF(<<>>, <<>>, <<>>))}

ProviderResponses ==
    [info : InfoResponses, hist : HistoryResponses, inc : StatementResponses,
     bal : StatementResponses, cf : StatementResponses]

\* the provider's answers during the runs of the script
Scenarios ==
    {[info |-> Ok(Dict(Str("London Stock Exchange Group plc"), Str("LSEG"))),
      hist |-> Ok(Prices), inc |-> Ok(TwoPeriods), bal |-> Ok(TextPeriod),
      cf |-> Ok(NoRows)],
     [info |-> Ok(Dict(NoneV, Str("LSEG"))),
      hist |-> Ok(Prices), inc |-> Ok(YearPeriod), bal |-> Ok(TwoPeriods),
      cf |-> Ok(TextPeriod)],
     [info |-> Throw, hist |-> Ok(NoPrices), inc |-> Ok(NoneV), bal |-> Ok(NoneV),
      cf |-> Ok(NoColumns)],
     [info |-> Ok(NoneV), hist |-> Throw, inc |-> Ok(NoneV), bal |-> Ok(NoneV),
      cf |-> Ok(NoneV)],
     [info |-> Ok(Dict(NoneV, Str("LSEG"))),
      hist |-> Ok(Prices), inc |-> Ok(TwoPeriods), bal |-> Throw, cf |-> Ok(NoneV)]}

\* what the user can leave in the text box
RawInputs ==
    {<<>>, <<" ">>, <<"a">>, <<"A">>, <<" ", "a">>, <<"A", " ">>, <<"\t", "a", " ">>}

\* how far the clock moves between runs
TickSteps == {TTL \div 2, TTL - 1, TTL}

\* values a Value cell can hold
CellValues ==
    {NoneV, NaN, Num(12345670), Num(5), Num(15), Num(25), Num(9995), Num(-4), Num(-5005),
     Num(0), Str("USD"), Str(""), Str("N/A"), Str("1,234"), Str("1234567"), Str("12.5"),
     Str("-3"), Str("NaN"), Str("nan")}

ItemValueTables ==
    UNION {{DF([i \in 1..n |-> i - 1], <<Str("Item"), Str("Value")>>,
               <<[i \in 1..n |-> Revenue], vs>>) : vs \in [1..n -> CellValues]}
           : n \in 1..MaxRows}

FormatInputs ==
    ItemValueTables
    \cup {NoneV, NoRows, DF(<<0>>, <<Str("Item"), Str("Amount")>>, << <<Revenue>>, <<Num(25)>> >>)}

(***************************** specifications *****************************)

Off == [status |-> "off"]

\* the script runs against the cache as the clock advances
Init ==
    /\ now = 0
    /\ cache = <<>>
    /\ run = Idle
    /\ fin = NoneV
    /\ fout = Off
    /\ cin = NoneV
    /\ cout = Off

Next ==
    \/ \E raw \in RawInputs, P \in Scenarios : Render(raw, P)
    \/ \E d \in TickSteps : Tick(d)

Spec == Init /\ [][Next]_vars

\* load_data alone, on every combination of provider responses
FetchInit ==
    /\ now = 0
    /\ cache = <<>>
    /\ run = Idle
    /\ fin \in ProviderResponses
    /\ fout = [status |-> "pending"]
    /\ cin = NoneV
    /\ cout = Off

FetchCall ==
    /\ fout.status = "pending"
    /\ fout' = load_data(<<"a">>, fin)
    /\ UNCHANGED <<now, cache, run, fin, cin, cout>>

FetchNext == FetchCall

FetchSpec == FetchInit /\ [][FetchNext]_vars

\* format_commas alone, on tables of every cell value
FormatInit ==
    /\ now = 0
    /\ cache = <<>>
    /\ run = Idle
    /\ fin = NoneV
    /\ fout = Off
    /\ cin \in FormatInputs
    /\ cout = [status |-> "pending"]

FormatCall ==
    /\ cout.status = "pending"
    /\ cout' = [status |-> "return", value |-> format_commas(cin)]
    /\ UNCHANGED <<now, cache, run, fin, fout, cin>>

FormatNext == FormatCall

FormatSpec == FormatInit /\ [][FormatNext]_vars

(********************************* claims *********************************)

Returned == fout.status = "return"
Finished == fout.status \in {"return", "raise"}

Statements == {"inc", "bal", "cf"}

Table(st) == fout.value[st]
Label(st) == CASE st = "inc" -> fout.value.inc_period
               [] st = "bal" -> fout.value.bal_period
               [] st = "cf" -> fout.value.cf_period

\* a response that carries no table: thrown, None, or a table with an empty axis
Absent(resp) == resp.r = "throw" \/ NoneOrEmpty(resp.v)

\* the (line item, value) rows of a returned snapshot; None holds no rows
SnapshotRows(df) ==
    IF NoneOrEmpty(df) THEN <<>>
    ELSE [i \in 1..Len(df.index) |-> <<df.data[1][i], df.data[2][i]>>]

AllRequests == <<"info", "history", "income_stmt", "balance_sheet", "cashflow">>

\* C1: load_data never raises, whatever each of the five provider calls does
\* (succeeds, returns empty, throws); every failed call shows as an empty or
\* absent field of the returned result.
C1_NeverRaises ==
    Finished =>
        /\ Returned
        /\ (fin.info.r = "throw" => IsNone(fout.value.name))
        /\ (fin.hist.r = "throw" => NoneOrEmpty(fout.value.hist))
        /\ \A st \in Statements : Absent(fin[st]) => SnapshotRows(Table(st)) = <<>>

\* the provider has nothing on the ticker: no name, no prices, no statements
NoData ==
    /\ \/ fin.info.r = "throw"
       \/ IsNone(fin.info.v)
       \/ (fin.info.v.k = "dict" /\ IsNone(fin.info.v.longName)
            /\ IsNone(fin.info.v.shortName))
    /\ fin.hist.r = "ok" /\ DfEmpty(fin.hist.v)
    /\ \A st \in Statements : fin[st].r = "ok" /\ NoneOrEmpty(fin[st].v)

\* C4: when the provider has no data whatsoever, load_data returns (does not
\* raise) a result with the name absent, the price series empty, and each of
\* the three statements with no rows and the period label "N/A".
C4_NoDataResult ==
    (Finished /\ NoData) =>
        /\ Returned
        /\ IsNone(fout.value.name)
        /\ DfEmpty(fout.value.hist)
        /\ \A st \in Statements : SnapshotRows(Table(st)) = <<>> /\ Label(st) = "N/A"

C4_Witness ==
    /\ Returned /\ NoData
    /\ fin.info.r = "throw" /\ IsNone(fin.inc.v) /\ fin.bal.v = NoRows
    /\ fin.cf.v = NoColumns

\* C5: for every non-empty statement table the returned snapshot has one row
\* per row of the table, in the table's order, each the line item's name with
\* its value in the table's first column, and it has no other column.
C5_LatestColumn ==
    Returned =>
        \A st \in Statements :
            ~NoneOrEmpty(fin[st].v) =>
                LET df == fin[st].v
                    out == Table(st)
                IN /\ out.columns = <<Str("Item"), Str("Value")>>
                   /\ Len(out.data) = 2
                   /\ Len(SnapshotRows(out)) = Len(df.index)
                   /\ \A i \in 1..Len(df.index) :
                          SnapshotRows(out)[i] = <<df.index[i], df.data[1][i]>>

C5_Witness ==
    /\ Returned
    /\ fin.inc.v = TwoPeriods
    /\ SnapshotRows(fout.value.inc) = << <<Revenue, Num(12345670)>>, <<Cost, Num(-5005)>> >>

\* the name the metadata response is said to give: the long name when present,
\* else the short name when present, else absent
ClaimedName(resp) ==
    IF resp.r = "throw" \/ IsNone(resp.v) THEN NoneV
    ELSE IF ~IsNone(resp.v.longName) THEN resp.v.longName
    ELSE resp.v.shortName

\* C6: the name is the long name when the lookup succeeds and has one, else
\* the short name, else absent (also when the lookup throws); and whatever the
\* lookup does, the price-history request and the three statement requests
\* are made and their results are in the returned result.
C6_MetadataLookup ==
    Finished =>
        /\ fout.requested = AllRequests
        /\ Returned
        /\ fout.value.name = ClaimedName(fin.info)
        /\ fout.value.hist = CloseOnly(fin.hist.v)
        /\ \A st \in Statements : Table(st) = latest_col(fin[st].v)[1]

\* the label said to be shown for a column identifier: the date as
\* YYYY-MM-DD when the identifier is a date, its text unchanged when not
ClaimedLabel(id) ==
    CASE id = Ts(2023, 12, 31) -> "2023-12-31"
      [] id = Ts(2022, 12, 31) -> "2022-12-31"
      [] id = Str("2023") -> "2023-01-01"
      [] id = Str("2022") -> "2022-01-01"
      [] id = Str("FY2023") -> "FY2023"
      [] id = Str("N/A") -> "N/A"
      [] id = NoneV -> "None"

\* C7 as stated: each statement's period label is present; it is "N/A"
\* exactly when the table is absent or empty, and otherwise the first column's
\* identifier as YYYY-MM-DD when it is a date, its raw text when it is not.
C7_PeriodLabelExactly ==
    Returned =>
        \A st \in Statements :
            /\ Label(st) \in STRING
            /\ (Label(st) = "N/A") <=> NoneOrEmpty(fin[st].v)
            /\ ~NoneOrEmpty(fin[st].v) => Label(st) = ClaimedLabel(fin[st].v.columns[1])

\* C7 as amended: each statement's period label is present; it is "N/A" when
\* the table is absent or empty or its first column's identifier is None, and
\* otherwise the identifier as YYYY-MM-DD when it is a date, its raw text when
\* it is not (a text that may itself read N/A).
C7_PeriodLabel ==
    Returned =>
        \A st \in Statements :
            /\ Label(st) \in STRING
            /\ Label(st) =
                  IF NoneOrEmpty(fin[st].v) \/ IsNone(fin[st].v.columns[1]) THEN "N/A"
                  ELSE ClaimedLabel(fin[st].v.columns[1])

C7_Witness ==
    /\ Returned
    /\ fin.inc.v = TwoPeriods /\ fout.value.inc_period = "2023-12-31"
    /\ fin.bal.v = TextPeriod /\ fout.value.bal_period = "FY2023"
    /\ fin.cf.v = NaTextPeriod /\ fout.value.cf_period = "N/A"

FormatReturned == cout.status = "return"

HasValueColumn(df) ==
    ~NoneOrEmpty(df) /\ Len(df.columns) = 2 /\ df.columns[2] = Str("Value")

\* the text Python prints for the numbers of CellValues with f"{x:,.0f}"
NumberText(t) ==
    CASE t = 12345670 -> "1,234,567"
      [] t = 5 -> "0"
      [] t = 15 -> "2"
      [] t = 25 -> "2"
      [] t = 9995 -> "1,000"
      [] t = -4 -> "-0"
      [] t = -5005 -> "-500"
      [] t = 0 -> "0"

\* the strings of CellValues that float() accepts, with the text printed
NumericStrings == {"1234567", "12.5", "-3", "NaN", "nan"}
NumericStringText(s) ==
    CASE s = "1234567" -> "1,234,567"
      [] s = "12.5" -> "12"
      [] s = "-3" -> "-3"
      [] s = "NaN" -> "nan"
      [] s = "nan" -> "nan"

\* C8 as stated: in the Value column every number shows with thousands
\* separators and no decimals, every None or missing value shows as "", and
\* every string passes through unchanged whatever it holds.
C8_FormatAnyString ==
    (FormatReturned /\ HasValueColumn(cin)) =>
        \A i \in 1..Len(cin.index) :
            LET x == cin.data[2][i]
                y == cout.value.data[2][i]
            IN CASE x.k = "num" -> y = Str(NumberText(x.t))
                 [] x.k \in {"none", "nan"} -> y = Str("")
                 [] x.k = "str" -> y = x

\* C8 as amended: in the Value column every number shows with thousands
\* separators and no decimals (rounded half to even), every None or missing
\* value shows as "", a string that float() accepts shows as the number it
\* denotes, and every other string passes through unchanged; the table keeps
\* its shape and its Item column.
C8_Format ==
    (FormatReturned /\ HasValueColumn(cin)) =>
        /\ cout.value.index = cin.index
        /\ cout.value.columns = cin.columns
        /\ cout.value.data[1] = cin.data[1]
        /\ Len(cout.value.data[2]) = Len(cin.index)
        /\ \A i \in 1..Len(cin.index) :
              LET x == cin.data[2][i]
                  y == cout.value.data[2][i]
              IN CASE x.k = "num" -> y = Str(NumberText(x.t))
                   [] x.k \in {"none", "nan"} -> y = Str("")
                   [] x.k = "str" /\ x.s \in NumericStrings ->
                          y = Str(NumericStringText(x.s))
                   [] OTHER -> y = x

C8_Witness ==
    /\ FormatReturned /\ HasValueColumn(cin)
    /\ Len(cin.index) = 2
    /\ cin.data[2] = <<Num(12345670), Str("USD")>>
    /\ cout.value.data[2] = <<Str("1,234,567"), Str("USD")>>

\* a step that is a run of the script calling the cached loader
Called == now' = now /\ run'.kind \in {"hit", "miss", "error"}

\* the store holds an entry for k younger than the TTL
Young(k) == k \in DOMAIN cache /\ now - cache[k].computed_at < TTL

\* C2: a call for a ticker whose entry is younger than the TTL returns the
\* stored result without running the loader's body, and no step changes an
\* entry younger than the TTL; so all calls for a ticker within one entry's
\* TTL window return that entry's result and the body runs once for it.
C2_HitWithinTTL ==
    [][/\ (Called /\ Young(run'.ticker)) =>
            /\ run'.kind = "hit"
            /\ ~run'.pipeline
            /\ run'.data = cache[run'.ticker].value
       /\ \A k \in DOMAIN cache :
            Young(k) => (k \in DOMAIN cache' /\ cache'[k] = cache[k])]_vars

C2_Witness ==
    /\ run.kind = "hit"
    /\ run.at - run.computed_at = TTL - 1
    /\ run.data = cache[run.ticker].value

\* C3: a call for a ticker with no entry, or with an entry as old as the TTL
\* or older, runs the loader's body once, stores its result under the ticker
\* stamped with the current time and returns it; an entry as old as the TTL or
\* older changes in no other step.
C3_MissRecomputes ==
    [][/\ (Called /\ ~Young(run'.ticker)) =>
            /\ run'.kind = "miss"
            /\ run'.pipeline
            /\ run'.ticker \in DOMAIN cache'
            /\ cache'[run'.ticker].value = run'.data
            /\ cache'[run'.ticker].computed_at = now
       /\ \A k \in DOMAIN cache :
            (~Young(k) /\ ~(Called /\ run'.ticker = k)) =>
                (k \in DOMAIN cache' /\ cache'[k] = cache[k])]_vars

\* C9: keys are the ticker strings as given: every entry is stored under the
\* very string it was computed for, a call returns only a result computed for
\* its own ticker string, and a call for one ticker leaves the entry and
\* timestamp of every other ticker as they were.
C9_ExactKeys ==
    /\ [](\A k \in DOMAIN cache : cache[k].tkr = k)
    /\ [](run.kind \in {"hit", "miss"} => run.computed_for = run.ticker)
    /\ [][Called =>
            \A k \in DOMAIN cache :
                k # run'.ticker => (k \in DOMAIN cache' /\ cache'[k] = cache[k])]_vars

C9_Witness ==
    /\ <<"a">> \in DOMAIN cache /\ <<"A">> \in DOMAIN cache
    /\ cache[<<"a">>].value # cache[<<"A">>].value
    /\ cache[<<"a">>].computed_at # cache[<<"A">>].computed_at
    /\ run.kind = "hit" /\ run.ticker = <<"A">>

\* C10: expiry counts from the computation, not from the last read: a hit
\* leaves the store as it was, and every result a call returns was computed
\* less than the TTL before that call.
C10_AgeBelowTTL ==
    /\ [](run.kind \in {"hit", "miss"} =>
            (run.computed_at <= run.at /\ run.at - run.computed_at < TTL))
    /\ [][(Called /\ run'.kind = "hit") => cache' = cache]_vars

C10_Witness ==
    /\ run.kind = "hit"
    /\ run.computed_at > 0
    /\ run.at - run.computed_at = TTL - 1
    /\ cache[run.ticker].computed_at = run.computed_at

====
